---------------------------- MODULE Spec2Model ----------------------------
(***************************************************************************)
(* A model of the spreadsheet engine: the Expression AST, the single-step  *)
(* reduction Expression::evaluate, the fixed-point reduction               *)
(* Expression::evaluate_recursively, the sheet driver                      *)
(* Spreadsheet::evaluate with its shared evaluation position, and the      *)
(* column naming functions.                                                *)
(*                                                                         *)
(* Text is a sequence of one-character strings, so that formatting,        *)
(* parsing and splitting are computed and not assumed.  Numbers are the    *)
(* integers (the f64 values the sheets of this model produce are integral).*)
(***************************************************************************)
EXTENDS Integers, Sequences, FiniteSets, TLC

VARIABLES
    rows,               \* Spreadsheet.rows: the grid, a sequence of rows of Expression
    labels_map,         \* Spreadsheet.labels_map: label text -> <<row, column>>, 0-based
    evaluating_row,     \* Spreadsheet.evaluating_row (RefCell<usize>)
    evaluating_column,  \* Spreadsheet.evaluating_column (RefCell<usize>)
    row_index,          \* rows the outer iterator of evaluate has yielded
    column_index,       \* cells the inner iterator has yielded in the current row
    expr,               \* evaluate_recursively: the local `expr`
    steps,              \* evaluate_recursively: iterations of the for loop done
    current,            \* texts collected so far for the current row
    result,             \* EvaluatedSpreadsheet.spreadsheet: the collected rows
    columns_length,     \* EvaluatedSpreadsheet.columns_length
    pc,                 \* where the driver stands
    panic,              \* the message of the panic that ended the run, or ""
    name_index,         \* the index given to column_name_from_index
    column_name,        \* the String column_name_from_index returned
    index               \* the usize column_index_from_name returned

\* the variables of the column naming functions
naming == <<name_index, column_name, index>>

vars == <<rows, labels_map, evaluating_row, evaluating_column, row_index,
          column_index, expr, steps, current, result, columns_length, pc, panic,
          name_index, column_name, index>>

RECURSION_LIMIT == 256

-----------------------------------------------------------------------------
(* Text *)

Digits == <<"0", "1", "2", "3", "4", "5", "6", "7", "8", "9">>

IsDigit(c) == \E i \in 1..10 : Digits[i] = c

DigitVal(c) == (CHOOSE i \in 1..10 : Digits[i] = c) - 1

RECURSIVE NatToText(_)
NatToText(n) ==
    IF n < 10 THEN <<Digits[n + 1]>>
    ELSE NatToText(n \div 10) \o <<Digits[(n % 10) + 1]>>

\* f64::to_string / format!("{}") of an integral value: no ".0", a leading "-"
NumToText(n) == IF n < 0 THEN <<"-">> \o NatToText(-n) ELSE NatToText(n)

RECURSIVE DigitsValue(_, _)
DigitsValue(t, acc) ==
    IF t = <<>> THEN acc ELSE DigitsValue(Tail(t), 10 * acc + DigitVal(Head(t)))

\* str::parse::<f64> on the texts of this model: an optional sign and one or
\* more decimal digits parse; anything else is Err.
ParseF64(t) ==
    LET signed == t # <<>> /\ Head(t) \in {"-", "+"}
        body   == IF signed THEN Tail(t) ELSE t
        ok     == body # <<>> /\ \A i \in 1..Len(body) : IsDigit(body[i])
    IN  [ok |-> ok,
         n  |-> IF ~ok THEN 0
                ELSE IF signed /\ Head(t) = "-" THEN -DigitsValue(body, 0)
                ELSE DigitsValue(body, 0)]

ErrorText == <<"e", "r", "r", "o", "r">>
TrueText == <<"t", "r", "u", "e">>
FalseText == <<"f", "a", "l", "s", "e">>
UnexpectedErrorText ==
    <<"u", "n", "e", "x", "p", "e", "c", "t", "e", "d", " ", "e", "r", "r", "o", "r">>

IsPrefix(p, t) == Len(p) <= Len(t) /\ SubSeq(t, 1, Len(p)) = p

\* str::split with a non-empty pattern: the fragments between the
\* non-overlapping matches found left to right.
RECURSIVE SplitFrom(_, _, _)
SplitFrom(t, delim, acc) ==
    IF t = <<>> THEN <<acc>>
    ELSE IF IsPrefix(delim, t)
         THEN <<acc>> \o SplitFrom(SubSeq(t, Len(delim) + 1, Len(t)), delim, <<>>)
         ELSE SplitFrom(Tail(t), delim, Append(acc, Head(t)))

Split(t, delim) == SplitFrom(t, delim, <<>>)

Letters ==
    <<"A", "B", "C", "D", "E", "F", "G", "H", "I", "J", "K", "L", "M",
      "N", "O", "P", "Q", "R", "S", "T", "U", "V", "W", "X", "Y", "Z">>

\* c as usize - 'A' as usize + 1, on the letters A..Z
LetterNumber(c) == CHOOSE i \in 1..26 : Letters[i] = c

RECURSIVE NameLoopNoCarryMutant(_, _)
NameLoopNoCarryMutant(column, name) ==
    IF column > 0
    THEN LET char_val == (column - 1) % 26
         IN  NameLoopNoCarryMutant(column \div 26, <<Letters[char_val + 1]>> \o name)
    ELSE name

\* the while loop of column_name_from_index: `column` and `column_name` at
\* the loop's test
RECURSIVE NameLoop(_, _)
NameLoop(column, name) ==
    IF column > 0
    THEN LET char_val == (column - 1) % 26
         IN  NameLoop((column - char_val) \div 26, <<Letters[char_val + 1]>> \o name)
    ELSE name

column_name_from_index(column) == NameLoop(column, <<>>)

\* the for loop of column_index_from_name over the `left` leading chars that
\* column.chars().rev() has not yielded yet
RECURSIVE IndexLoop(_, _, _, _)
IndexLoop(column, left, acc, mul) ==
    IF left = 0 THEN acc
    ELSE IndexLoop(column, left - 1, acc + LetterNumber(column[left]) * mul, mul * 26)

column_index_from_name(column) == IndexLoop(column, Len(column), 0, 1)

-----------------------------------------------------------------------------
(* Expression: one record shape for every variant, so that any two          *)
(* expressions can be compared.  type is the variant; n the f64 of Number   *)
(* and n_rows of LabelReference; s the text of String, Label and            *)
(* LabelReference.label; xs the expressions of List, Spread, params, args;  *)
(* name the function name; row, col the coordinates of CellReference,       *)
(* ColumnReference and CopyEvaluated.  The display names (name,             *)
(* column_name) of the reference structs are never read by evaluation and   *)
(* are left out.                                                            *)

Expr(type, n, s, xs, name, row, col) ==
    [type |-> type, n |-> n, s |-> s, xs |-> xs, name |-> name, row |-> row, col |-> col]

Empty == Expr("Empty", 0, <<>>, <<>>, "", 0, 0)
Number(n) == Expr("Number", n, <<>>, <<>>, "", 0, 0)
Label(s) == Expr("Label", 0, s, <<>>, "", 0, 0)
String(s) == Expr("String", 0, s, <<>>, "", 0, 0)
List(xs) == Expr("List", 0, <<>>, xs, "", 0, 0)
Spread(xs) == Expr("Spread", 0, <<>>, xs, "", 0, 0)
CellReference(row, col) == Expr("CellReference", 0, <<>>, <<>>, "", row, col)
LabelReference(s, n_rows) == Expr("LabelReference", n_rows, s, <<>>, "", 0, 0)
ColumnReference(col) == Expr("ColumnReference", 0, <<>>, <<>>, "", 0, col)
CopyAbove == Expr("CopyAbove", 0, <<>>, <<>>, "", 0, 0)
CopyEvaluated(col) == Expr("CopyEvaluated", 0, <<>>, <<>>, "", 0, col)
Function(name, params) == Expr("Function", 0, <<>>, params, name, 0, 0)
Plus(args) == Expr("Plus", 0, <<>>, args, "", 0, 0)
Minus(args) == Expr("Minus", 0, <<>>, args, "", 0, 0)
Multiply(args) == Expr("Multiply", 0, <<>>, args, "", 0, 0)
Divide(args) == Expr("Divide", 0, <<>>, args, "", 0, 0)

\* Expression::to_number; ok = FALSE is panic!("expected number")
to_number(e) ==
    CASE e.type = "Number" -> [ok |-> TRUE, n |-> e.n]
      [] e.type = "String" -> [ok |-> TRUE, n |-> ParseF64(e.s).n]
      [] e.type = "Spread" -> [ok |-> TRUE, n |-> 0]
      [] OTHER -> [ok |-> FALSE, n |-> 0]

\* impl Display for Expression (every number of the model has fract() == 0)
to_string(e) ==
    CASE e.type = "Number" -> NumToText(e.n)
      [] e.type = "String" -> IF ParseF64(e.s).ok THEN NumToText(ParseF64(e.s).n) ELSE e.s
      [] OTHER -> UnexpectedErrorText

\* str::to_lowercase on the function names the sheets of this model use
to_lowercase(name) ==
    CASE name = "SUM" -> "sum"
      [] name = "Concat" -> "concat"
      [] OTHER -> name

\* parse_cell_from_str(input).unwrap_or(String(input)) on a fragment that is
\* neither a label (!...) nor a formula (=...): parse_cell yields String for
\* any_string and None, hence the unwrap_or's String, for anything else.
parse_cell_from_str(input) == String(input)

-----------------------------------------------------------------------------
(* Outcomes of one call of Expression::evaluate: the expression returned    *)
(* and the evaluating_row it leaves behind ("ok"), a panic ("panic"), or a   *)
(* call that re-enters itself with the same expression and the same          *)
(* evaluating_row while it is still running: the recursion then repeats      *)
(* without end and never returns ("unbounded").                              *)

Ok(e, row) == [kind |-> "ok", e |-> e, row |-> row, msg |-> ""]
Panicked(msg, row) == [kind |-> "panic", e |-> Empty, row |-> row, msg |-> msg]
Unbounded(row) == [kind |-> "unbounded", e |-> Empty, row |-> row, msg |-> ""]

\* Spreadsheet::get_cell succeeds: both indices name a cell (row_number - 1
\* and column_number - 1 do not underflow and both `get`s are Some)
HasCell(row_number, column_number) ==
    /\ row_number \in 1..Len(rows)
    /\ column_number \in 1..Len(rows[row_number])

get_cell(row_number, column_number) == rows[row_number][column_number]

\* the message of get_cell's failing expect
NoCell(row_number) ==
    IF row_number \in 1..Len(rows) THEN "referencing unknown column"
    ELSE "referencing unknown row"

\* the flat_map of the Function arm: a Spread is replaced by its elements
FlattenReversedMutant(evaluated) ==
    IF evaluated.type = "Spread"
    THEN [i \in 1..Len(evaluated.xs) |-> evaluated.xs[Len(evaluated.xs) + 1 - i]]
    ELSE <<evaluated>>

Flatten(evaluated) ==
    IF evaluated.type = "Spread" THEN evaluated.xs ELSE <<evaluated>>

RECURSIVE Concat(_)
Concat(texts) == IF texts = <<>> THEN <<>> ELSE Head(texts) \o Concat(Tail(texts))

RECURSIVE Sum(_)
Sum(ns) == IF ns = <<>> THEN 0 ELSE Head(ns) + Sum(Tail(ns))

RECURSIVE Product(_)
Product(ns) == IF ns = <<>> THEN 1 ELSE Head(ns) * Product(Tail(ns))

\* the fold of the Divide arm over the divisors, none of which is 0; the
\* sheets of this model divide only where the quotient is integral
QuotientFirstOnlyMutant(acc, ns) == IF ns = <<>> THEN acc ELSE acc \div Head(ns)

RECURSIVE Quotient(_, _)
Quotient(acc, ns) == IF ns = <<>> THEN acc ELSE Quotient(acc \div Head(ns), Tail(ns))

\* the fold of the Minus arm: fold(first, |acc, cur| acc + cur)
MinusFold(first, rest) == first + Sum(rest)

\* the row the ColumnReference arm stops at: scanning rows last to first,
\* the first row that has the column with a cell neither Empty nor Label
ScanRows(column) ==
    {r \in 1..Len(rows) : /\ column \in 1..Len(rows[r])
                          /\ rows[r][column].type \notin {"Empty", "Label"}}

Max(S) == CHOOSE x \in S : \A y \in S : y <= x

Min(S) == CHOOSE x \in S : \A y \in S : x <= y

ScanTargetForwardMutant(column) == Min(ScanRows(column))

\* rows.iter().rev(): the scan returns at the greatest such row
ScanTarget(column) == Max(ScanRows(column))

RECURSIVE Evaluate(_, _, _)
RECURSIVE EvaluateSeq(_, _, _, _)
RECURSIVE EvaluateFunction(_, _, _, _)

\* args evaluated left to right, each call starting from the evaluating_row
\* the one before left.  mode "none": evaluate only; "number": evaluate and
\* to_number; "divisor": as "number", then panic on 0.
EvaluateSeq(args, row, active, mode) ==
    IF args = <<>>
    THEN [kind |-> "ok", msg |-> "", es |-> <<>>, ns |-> <<>>, row |-> row]
    ELSE LET h == Evaluate(Head(args), row, active)
             num == to_number(h.e)
         IN  IF h.kind # "ok"
             THEN [kind |-> h.kind, msg |-> h.msg, es |-> <<>>, ns |-> <<>>, row |-> h.row]
             ELSE IF mode # "none" /\ ~num.ok
             THEN [kind |-> "panic", msg |-> "expected number", es |-> <<>>,
                   ns |-> <<>>, row |-> h.row]
             ELSE IF mode = "divisor" /\ num.n = 0
             THEN [kind |-> "panic", msg |-> "division by zero", es |-> <<>>,
                   ns |-> <<>>, row |-> h.row]
             ELSE LET t == EvaluateSeq(Tail(args), h.row, active, mode)
                  IN  IF t.kind # "ok" THEN t
                      ELSE [kind |-> "ok", msg |-> "", es |-> <<h.e>> \o t.es,
                            ns |-> <<num.n>> \o t.ns, row |-> t.row]

\* the match on the lowercased name, over the flattened, evaluated params
EvaluateFunction(name, params, row, active) ==
    LET fail(r) == [kind |-> r.kind, e |-> Empty, row |-> r.row, msg |-> r.msg]
        nums == EvaluateSeq(params, row, active, "number")
        vals == EvaluateSeq(params, row, active, "none")
        first == Evaluate(params[1], row, active)
    IN  CASE name = "sum" ->
               IF nums.kind # "ok" THEN fail(nums)
               ELSE Ok(Number(Sum(nums.ns)), nums.row)
          [] name \in {"gte", "bte", "lte"} ->
               IF Len(params) # 2 THEN Panicked("binary operation needs 2 params", row)
               ELSE IF nums.kind # "ok" THEN fail(nums)
               ELSE LET holds == IF name = "lte" THEN nums.ns[1] <= nums.ns[2]
                                 ELSE nums.ns[1] >= nums.ns[2]
                    IN  Ok(String(IF holds THEN TrueText ELSE FalseText), nums.row)
          [] name = "text" ->
               IF params = <<>> THEN Panicked("index out of bounds", row)
               ELSE IF first.kind # "ok" THEN first
               ELSE Ok(String(to_string(first.e)), first.row)
          [] name = "split" ->
               IF Len(params) # 2 THEN Panicked("binary operation needs 2 params", row)
               ELSE IF vals.kind # "ok" THEN fail(vals)
               ELSE LET text == to_string(vals.es[1])
                        delim == to_string(vals.es[2])
                        parts == Split(text, delim)
                    IN  Ok(List([i \in 1..Len(parts) |-> parse_cell_from_str(parts[i])]),
                           vals.row)
          [] name = "concat" ->
               IF vals.kind # "ok" THEN fail(vals)
               ELSE Ok(String(Concat([i \in 1..Len(vals.es) |-> to_string(vals.es[i])])),
                       vals.row)
          [] name = "spread" ->
               IF params = <<>> THEN Panicked("index out of bounds", row)
               ELSE IF first.kind # "ok" THEN first
               ELSE IF first.e.type # "List"
               THEN Panicked("spread only works on lists", first.row)
               ELSE Ok(Spread(first.e.xs), first.row)
          [] name = "incfrom" ->
               IF params = <<>> THEN Panicked("index out of bounds", row)
               ELSE IF first.kind # "ok" THEN first
               ELSE IF ~to_number(first.e).ok THEN Panicked("expected number", first.row)
               ELSE Ok(Number(to_number(first.e).n), first.row)
          [] OTHER -> Panicked("unknown function", row)

\* Expression::evaluate on `self` = e with evaluating_row = row on entry;
\* active holds the <<expression, evaluating_row>> of the calls of evaluate
\* that have not returned yet.
Evaluate(e, row, active) ==
    LET inner == active \cup {<<e, row>>}
        column == evaluating_column
    IN
    IF <<e, row>> \in active THEN Unbounded(row)
    ELSE CASE e.type = "Empty" -> Ok(String(<<>>), row)
      [] e.type = "Number" -> Ok(String(NumToText(e.n)), row)
      [] e.type = "String" -> Ok(String(e.s), row)
      [] e.type = "Label" -> Ok(String(e.s), row)
      [] e.type = "CellReference" ->
           IF HasCell(e.row, e.col) THEN Ok(get_cell(e.row, e.col), row)
           ELSE Panicked(NoCell(e.row), row)
      [] e.type = "LabelReference" ->
           IF e.s \in DOMAIN labels_map
           THEN LET label_row_number == labels_map[e.s][1]
                    label_column_number == labels_map[e.s][2]
                    r == label_row_number + e.n + 1
                    c == label_column_number + 1
                IN  IF HasCell(r, c) THEN Evaluate(get_cell(r, c), row, inner)
                    ELSE Panicked(NoCell(r), row)
           ELSE Ok(String(ErrorText), row)
      [] e.type = "CopyAbove" ->
           \* row_number - 1 on 0 panics in a debug build and wraps in a release
           \* build, where get_cell then panics: a panic in both
           IF row = 0 THEN Panicked("referencing unknown row", row)
           ELSE IF ~HasCell(row - 1, column) THEN Panicked(NoCell(row - 1), row - 1)
           ELSE LET above_cell == get_cell(row - 1, column)
                    above == Evaluate(above_cell, row - 1, inner)
                IN  IF above_cell.type = "CopyAbove"
                    THEN IF above.kind # "ok" THEN above
                         ELSE IF above.e.type = "CellReference"
                         THEN IF above.e.row = 0
                              THEN Panicked("referencing unknown row", above.row)
                              ELSE Ok(CellReference(above.e.row - 1, above.e.col), above.row)
                         ELSE Panicked("unreachable", above.row)
                    ELSE Ok(above_cell, row - 1)
      [] e.type = "CopyEvaluated" ->
           IF row = 0 THEN Panicked("referencing unknown row", row)
           ELSE IF ~HasCell(row - 1, e.col) THEN Panicked(NoCell(row - 1), row)
           ELSE Evaluate(get_cell(row - 1, e.col), row, inner)
      [] e.type = "ColumnReference" ->
           IF ScanRows(e.col) = {} THEN Ok(String(ErrorText), row)
           ELSE Evaluate(get_cell(ScanTarget(e.col), e.col), row, inner)
      [] e.type = "Plus" ->
           LET r == EvaluateSeq(e.xs, row, inner, "number")
           IN  IF r.kind # "ok" THEN [kind |-> r.kind, e |-> Empty, row |-> r.row, msg |-> r.msg]
               ELSE Ok(Number(Sum(r.ns)), r.row)
      [] e.type = "Minus" ->
           LET r == EvaluateSeq(e.xs, row, inner, "number")
           IN  IF e.xs = <<>> THEN Panicked("index out of bounds", row)
               ELSE IF r.kind # "ok"
               THEN [kind |-> r.kind, e |-> Empty, row |-> r.row, msg |-> r.msg]
               ELSE Ok(Number(MinusFold(Head(r.ns), Tail(r.ns))), r.row)
      [] e.type = "Multiply" ->
           LET r == EvaluateSeq(e.xs, row, inner, "number")
           IN  IF r.kind # "ok" THEN [kind |-> r.kind, e |-> Empty, row |-> r.row, msg |-> r.msg]
               ELSE Ok(Number(Product(r.ns)), r.row)
      [] e.type = "Divide" ->
           LET f == EvaluateSeq(SubSeq(e.xs, 1, 1), row, inner, "number")
               r == EvaluateSeq(Tail(e.xs), f.row, inner, "divisor")
           IN  IF e.xs = <<>> THEN Panicked("index out of bounds", row)
               ELSE IF f.kind # "ok"
               THEN [kind |-> f.kind, e |-> Empty, row |-> f.row, msg |-> f.msg]
               ELSE IF r.kind # "ok"
               THEN [kind |-> r.kind, e |-> Empty, row |-> r.row, msg |-> r.msg]
               ELSE Ok(Number(Quotient(f.ns[1], r.ns)), r.row)
      [] e.type = "Function" ->
           LET r == EvaluateSeq(e.xs, row, inner, "none")
               flat == [i \in 1..Len(r.es) |-> Flatten(r.es[i])]
           IN  IF r.kind # "ok" THEN [kind |-> r.kind, e |-> Empty, row |-> r.row, msg |-> r.msg]
               ELSE EvaluateFunction(to_lowercase(e.name), Concat(flat), r.row, inner)
      [] OTHER -> Ok(e, row)   \* List, Spread: self.clone()

-----------------------------------------------------------------------------
(* The Sheet Builder: parse's labels_map.  The grammar that turns text into  *)
(* cells is not part of the model; a sheet is the grid parse returns.        *)

InsertIfAbsentMutant(map, key, value) ==
    [k \in DOMAIN map \cup {key} |-> IF k \in DOMAIN map THEN map[k] ELSE value]

\* HashMap::insert: a later insert of the same key overwrites
Insert(map, key, value) ==
    [k \in DOMAIN map \cup {key} |-> IF k = key THEN value ELSE map[k]]

\* the cells of one row, left to right, from column_number = c - 1 on
RECURSIVE ParseRow(_, _, _, _)
ParseRow(cells, row_number, c, map) ==
    IF c > Len(cells) THEN map
    ELSE ParseRow(cells, row_number, c + 1,
                  IF cells[c].type = "Label"
                  THEN Insert(map, cells[c].s, <<row_number, c - 1>>)
                  ELSE map)

\* the rows lo..hi top to bottom (row_number = r - 1), the inserts of a row
\* made on the map the rows above it left.  The range is halved, and the map
\* of the upper half computed before the lower half is entered, only to keep
\* the nesting of this definition shallow on long sheets.
RECURSIVE ParseRows(_, _, _, _)
ParseRows(sheet, lo, hi, map) ==
    IF lo > hi THEN map
    ELSE IF lo = hi THEN ParseRow(sheet[lo], lo - 1, 1, map)
    ELSE LET mid == (lo + hi) \div 2
             upper == ParseRows(sheet, lo, mid, map)
         IN  IF DOMAIN upper = {} THEN ParseRows(sheet, mid + 1, hi, <<>>)
             ELSE ParseRows(sheet, mid + 1, hi, upper)

parse(sheet) == ParseRows(sheet, 1, Len(sheet), <<>>)

-----------------------------------------------------------------------------
(* The sheets the model evaluates *)

MaxPosRows == 4
MaxPosCols == 2
MaxLabelRows == 3
MaxLabelCols == 2
MaxNRows == 2
MaxColRows == 3
MaxItems == 2
MaxParams == 2
MaxArgs == 3
MaxDivisors == 3
MaxColumn == 704

\* a literal cell whose text names its own position
Value(r, c) == String(NumToText(10 * r + c))

\* the examples of the specification and the smallest reference cycles
ChainSheet == <<<<String(<<"5">>)>>, <<CopyAbove>>, <<CopyAbove>>>>
SumSplitSheet ==
    <<<<Function("sum", <<Function("split",
            <<String(<<"1", ",", "1", ",", "3">>), String(<<",">>)>>)>>)>>>>
SumSpreadSheet ==
    <<<<Function("sum", <<Function("spread", <<Function("split",
            <<String(<<"1", ",", "2", ",", "3">>), String(<<",">>)>>)>>)>>)>>>>
PlainRowSheet == <<<<String(<<"a", "b", "c">>), String(<<"1", "2">>), String(<<"a">>)>>>>
CellCycleSheet == <<<<CellReference(1, 1)>>>>
ColumnCycleSheet == <<<<ColumnReference(1)>>>>
LabelCycleSheet == <<<<Label(<<"x">>)>>, <<LabelReference(<<"x">>, 1)>>>>
DivideSheet == <<<<Divide(<<Number(8), Number(2), Number(2)>>),
                   Multiply(<<Number(2), Number(3)>>),
                   Plus(<<Number(2), CellReference(1, 2)>>)>>>>

\* a column of RECURSION_LIMIT cells, each a reference to the one below it,
\* the last one the formula =5: its first cell needs RECURSION_LIMIT reductions
LimitChainSheet ==
    [r \in 1..RECURSION_LIMIT |->
        <<IF r < RECURSION_LIMIT THEN CellReference(r + 1, 1) ELSE Number(5)>>]

BaseSheets ==
    {ChainSheet, SumSplitSheet, SumSpreadSheet, PlainRowSheet, CellCycleSheet,
     ColumnCycleSheet, LabelCycleSheet, DivideSheet}

\* the cells a family of sheets allows at (r, c)
FamilyCells(family, r, c) ==
    CASE family = "position" ->
           \* literals in row 1, and below it literals, CopyAbove and CopyEvaluated
           IF r = 1 THEN {Value(r, c)} ELSE {Value(r, c), CopyAbove, CopyEvaluated(1)}
      [] OTHER -> {Empty}

\* the rows of a family: columns 1..c of row r
RECURSIVE FamilyRow(_, _, _)
FamilyRow(family, r, c) ==
    IF c = 0 THEN {<<>>}
    ELSE {Append(row, cell) : row \in FamilyRow(family, r, c - 1),
                              cell \in FamilyCells(family, r, c)}

\* the grids of a family with r rows of nc columns
RECURSIVE Grids(_, _, _)
Grids(family, r, nc) ==
    IF r = 0 THEN {<<>>}
    ELSE {Append(grid, row) : grid \in Grids(family, r - 1, nc),
                              row \in FamilyRow(family, r, nc)}

PositionSheets(max_rows, max_cols) ==
    UNION {Grids("position", nr, nc) : nr \in 1..max_rows, nc \in 1..max_cols}

\* `grid` with the cell at (r, c) replaced
Replace(grid, r, c, cell) == [grid EXCEPT ![r][c] = cell]

\* formulas =<number>, up to two declarations of the label x, and one cell
\* that refers to the label x (declared or not, 0..MaxNRows rows below it)
\* or to the undeclared label z
LabelRefs(max_n_rows) ==
    {LabelReference(<<"x">>, k) : k \in 0..max_n_rows} \cup {LabelReference(<<"z">>, 0)}

LabelGrids(nr, nc) ==
    LET positions == (1..nr) \X (1..nc)
        numbers == [r \in 1..nr |-> [c \in 1..nc |-> Number(10 * r + c)]]
    IN  {Replace(Replace(Replace(numbers, p[1], p[2], Label(<<"x">>)),
                         q[1], q[2], Label(<<"x">>)), at[1], at[2], ref) :
            p \in positions, q \in positions, at \in positions,
            ref \in LabelRefs(MaxNRows)}

LabelSheets(max_rows, max_cols) ==
    UNION {LabelGrids(nr, nc) : nr \in 1..max_rows, nc \in 1..max_cols}

\* column 2 of a row: absent, Empty, a label or the formula =<number>
ColumnRowTails(r) == {<<>>, <<Empty>>, <<Label(<<"x">>)>>, <<Number(10 * r + 2)>>}

RECURSIVE ColumnGrids(_, _)
ColumnGrids(r, at) ==
    IF r = 0 THEN {<<>>}
    ELSE {Append(grid, <<IF r = at THEN ColumnReference(2) ELSE Value(r, 1)>> \o tail) :
              grid \in ColumnGrids(r - 1, at), tail \in ColumnRowTails(r)}

\* two columns: a reference to column 2 in one row of column 1
ColumnSheets(max_rows) == UNION {ColumnGrids(nr, at) : nr \in 1..max_rows, at \in 1..max_rows}

\* sequences over S of length 1..n
SeqsUpTo(S, n) == UNION {[1..k -> S] : k \in 1..n}

ItemLists == SeqsUpTo({1, 2}, MaxItems)

\* the text "i1,i2,..,ik"
RECURSIVE Join(_)
Join(items) ==
    IF Len(items) = 1 THEN NumToText(items[1])
    ELSE NumToText(Head(items)) \o <<",">> \o Join(Tail(items))

SplitOf(items) == Function("split", <<String(Join(items)), String(<<",">>)>>)

SpreadOf(items) == Function("spread", <<SplitOf(items)>>)

\* =sum(split("i1,..,ik", ","))
SumSplitSheets == {<<<<Function("sum", <<SplitOf(items)>>)>>>> : items \in ItemLists}

\* calls whose params are the literal "7" and spread(split(..)) calls
SpreadParams == {String(<<"7">>)} \cup {SpreadOf(items) : items \in ItemLists}

SpreadSheets(max_params) ==
    {<<<<Function(name, params)>>>> :
        name \in {"concat", "SUM", "gte"}, params \in SeqsUpTo(SpreadParams, max_params)}

\* one Minus node over numbers and numeric texts
MinusSheets(max_args) ==
    {<<<<Minus(args)>>>> : args \in SeqsUpTo({Number(1), Number(5), String(<<"2">>)}, max_args)}

\* a dividend whose quotient by up to MaxDivisors twos is integral
Dividend == 2 ^ MaxDivisors

Dividends == {Number(0), Number(Dividend), String(NumToText(Dividend))}

\* divisors: numbers and numeric texts, and the zeros 0, "-0" and the text
\* "x", which does not parse
Divisors ==
    {Number(0), Number(1), Number(2), String(<<"2">>), String(<<"x">>), String(<<"-", "0">>)}

\* one Divide node: a dividend and up to max_divisors divisors
DivideSheets(max_divisors) ==
    {<<<<Divide(<<first>> \o rest)>>>> :
        first \in Dividends, rest \in {<<>>} \cup SeqsUpTo(Divisors, max_divisors)}

\* cells that evaluate to the text "6": a literal, the formula =6, two
\* formulas that compute 6 and a reference to the literal in column 3
ReferencedCells ==
    {String(<<"6">>), Number(6), Multiply(<<Number(2), Number(3)>>),
     Function("sum", <<Number(6)>>), CellReference(1, 3)}

\* one row: a cell of ReferencedCells, an arithmetic node over 12 and a
\* reference to that cell, and the literal 6
ArithmeticSheets ==
    {<<<<cell, Expr(op, 0, <<>>, <<Number(12), CellReference(1, 1)>>, "", 0, 0), String(<<"6">>)>>>> :
        cell \in ReferencedCells, op \in {"Plus", "Minus", "Multiply", "Divide"}}

\* the sheets of a family, by name
Sheets(family) ==
    CASE family = "base" -> BaseSheets \cup {LimitChainSheet}
      [] family = "position" -> PositionSheets(MaxPosRows, MaxPosCols)
      [] family = "label" -> LabelSheets(MaxLabelRows, MaxLabelCols)
      [] family = "column" -> ColumnSheets(MaxColRows)
      [] family = "sum" -> SumSplitSheets
      [] family = "spread" -> SpreadSheets(MaxParams)
      [] family = "minus" -> MinusSheets(MaxArgs)
      [] family = "divide" -> DivideSheets(MaxDivisors)
      [] family = "arithmetic" -> ArithmeticSheets

Families == {"base", "position", "label", "column", "sum", "spread", "minus", "divide",
             "arithmetic"}

-----------------------------------------------------------------------------
(* The Sheet Driver: Spreadsheet::from_str and Spreadsheet::evaluate, one    *)
(* action per step of its two iterators and of evaluate_recursively's loop.  *)

\* Spreadsheet::from_str on the text of `sheet`
FromStr(sheet) ==
    /\ rows = sheet
    /\ labels_map = parse(sheet)
    /\ evaluating_row = 0
    /\ evaluating_column = 0
    /\ row_index = 0
    /\ column_index = 0
    /\ expr = Empty
    /\ steps = 0
    /\ current = <<>>
    /\ result = <<>>
    /\ columns_length = <<>>
    /\ pc = "rows"
    /\ panic = ""
    /\ name_index = 0
    /\ column_name = <<>>
    /\ index = 0

Init == \E family \in Families : \E sheet \in Sheets(family) : FromStr(sheet)

InitLabels == \E family \in {"base", "label"} : \E sheet \in Sheets(family) : FromStr(sheet)

InitColumns == \E family \in {"base", "column"} : \E sheet \in Sheets(family) : FromStr(sheet)

InitSpread == \E family \in {"base", "spread"} : \E sheet \in Sheets(family) : FromStr(sheet)

InitDivide == \E family \in {"base", "divide"} : \E sheet \in Sheets(family) : FromStr(sheet)

\* the outer map's closure starts on the next row
NextRow ==
    /\ pc = "rows"
    /\ row_index < Len(rows)
    /\ row_index' = row_index + 1
    /\ evaluating_row' = evaluating_row + 1
    /\ evaluating_column' = 0
    /\ column_index' = 0
    /\ current' = <<>>
    /\ pc' = "cells"
    /\ UNCHANGED naming
    /\ UNCHANGED <<rows, labels_map, expr, steps, result, columns_length, panic>>

\* the outer iterator is exhausted: the EvaluatedSpreadsheet is returned
Finish ==
    /\ pc = "rows"
    /\ row_index = Len(rows)
    /\ pc' = "done"
    /\ UNCHANGED naming
    /\ UNCHANGED <<rows, labels_map, evaluating_row, evaluating_column, row_index,
                   column_index, expr, steps, current, result, columns_length, panic>>

\* the inner map's closure starts on the next cell: evaluate_recursively is
\* entered with expr = self.clone()
NextCell ==
    /\ pc = "cells"
    /\ column_index < Len(rows[row_index])
    /\ column_index' = column_index + 1
    /\ evaluating_column' = evaluating_column + 1
    /\ expr' = rows[row_index][column_index + 1]
    /\ steps' = 0
    /\ pc' = "loop"
    /\ UNCHANGED naming
    /\ UNCHANGED <<rows, labels_map, evaluating_row, row_index, current, result,
                   columns_length, panic>>

\* the inner iterator is exhausted: the row is collected
EndRow ==
    /\ pc = "cells"
    /\ column_index = Len(rows[row_index])
    /\ result' = Append(result, current)
    /\ pc' = "rows"
    /\ UNCHANGED naming
    /\ UNCHANGED <<rows, labels_map, evaluating_row, evaluating_column, row_index,
                   column_index, expr, steps, current, columns_length, panic>>

\* the loop's early return within the first limit iterations
ReturnsText(limit) == steps < limit /\ expr.type = "String"

\* evaluate_recursively returns the String; the closure records its text and
\* the column's running maximum length
Return ==
    /\ pc = "loop"
    /\ ReturnsText(RECURSION_LIMIT)
    /\ LET value == to_string(expr)
           column == column_index - 1
           known == IF column \in DOMAIN columns_length THEN columns_length[column] ELSE 0
       IN  /\ current' = Append(current, value)
           /\ columns_length' =
                  [k \in DOMAIN columns_length \cup {column} |->
                      IF k # column THEN columns_length[k]
                      ELSE IF Len(value) > known THEN Len(value) ELSE known]
    /\ pc' = "cells"
    /\ UNCHANGED naming
    /\ UNCHANGED <<rows, labels_map, evaluating_row, evaluating_column, row_index,
                   column_index, expr, steps, result, panic>>

\* one iteration of the loop that does not return: expr = expr.evaluate(..)
Reduce ==
    /\ pc = "loop"
    /\ steps < RECURSION_LIMIT
    /\ expr.type # "String"
    /\ LET r == Evaluate(expr, evaluating_row, {})
       IN  /\ evaluating_row' = r.row
           /\ expr' = IF r.kind = "ok" THEN r.e ELSE expr
           /\ steps' = IF r.kind = "ok" THEN steps + 1 ELSE steps
           /\ pc' = CASE r.kind = "ok" -> "loop"
                      [] r.kind = "panic" -> "panicked"
                      [] OTHER -> "unbounded"
           /\ panic' = r.msg
    /\ UNCHANGED naming
    /\ UNCHANGED <<rows, labels_map, evaluating_column, row_index, column_index,
                   current, result, columns_length>>

\* the loop ran RECURSION_LIMIT times without returning
LimitReached ==
    /\ pc = "loop"
    /\ steps = RECURSION_LIMIT
    /\ pc' = "panicked"
    /\ panic' = "recursion limit reached"
    /\ UNCHANGED naming
    /\ UNCHANGED <<rows, labels_map, evaluating_row, evaluating_column, row_index,
                   column_index, expr, steps, current, result, columns_length>>

Next == NextRow \/ Finish \/ NextCell \/ EndRow \/ Return \/ Reduce \/ LimitReached

\* the column naming functions on their own: an index 1..MaxColumn (the last
\* one-letter name is 26, the last two-letter name 702) is named, and the name
\* is read back
InitNames ==
    /\ rows = <<>>
    /\ labels_map = <<>>
    /\ evaluating_row = 0
    /\ evaluating_column = 0
    /\ row_index = 0
    /\ column_index = 0
    /\ expr = Empty
    /\ steps = 0
    /\ current = <<>>
    /\ result = <<>>
    /\ columns_length = <<>>
    /\ panic = ""
    /\ pc = "index"
    /\ name_index \in 1..MaxColumn
    /\ column_name = <<>>
    /\ index = 0

NameFromIndex ==
    /\ pc = "index"
    /\ column_name' = column_name_from_index(name_index)
    /\ pc' = "name"
    /\ UNCHANGED <<rows, labels_map, evaluating_row, evaluating_column, row_index,
                   column_index, expr, steps, current, result, columns_length, panic,
                   name_index, index>>

IndexFromName ==
    /\ pc = "name"
    /\ index' = column_index_from_name(column_name)
    /\ pc' = "named"
    /\ UNCHANGED <<rows, labels_map, evaluating_row, evaluating_column, row_index,
                   column_index, expr, steps, current, result, columns_length, panic,
                   name_index, column_name>>

NextNames == NameFromIndex \/ IndexFromName

Spec == Init /\ [][Next]_vars

SpecLabels == InitLabels /\ [][Next]_vars

SpecColumns == InitColumns /\ [][Next]_vars

SpecSpread == InitSpread /\ [][Next]_vars

SpecDivide == InitDivide /\ [][Next]_vars

SpecNames == InitNames /\ [][NextNames]_vars

-----------------------------------------------------------------------------
(* What the claims speak of *)

End == pc \in {"done", "panicked", "unbounded"}

\* the driver is on a cell: the one it took last
OnCell == row_index >= 1 /\ column_index >= 1

Cell == rows[row_index][column_index]

\* the current cell's evaluation ended in a panic or never returns
Failed == OnCell /\ pc \in {"panicked", "unbounded"}

\* the current cell's text has just been recorded
Finished == OnCell /\ pc = "cells" /\ Len(current) = column_index

\* exactly one reduction of the current cell has returned
FirstStepDone == OnCell /\ pc \in {"loop", "panicked", "unbounded"} /\ steps = 1

\* the first reduction of the current cell did not return
FirstStepFailed == Failed /\ steps = 0

\* the text recorded for the cell at (r, c), once it is
Recorded(r, c) == r <= Len(result) \/ (r = row_index /\ c <= Len(current))

TextAt(r, c) == IF r <= Len(result) THEN result[r][c] ELSE current[c]

FailedAt(r, c) == Failed /\ row_index = r /\ column_index = c

Positions == UNION {{<<r, c>> : c \in 1..Len(rows[r])} : r \in 1..Len(rows)}

-----------------------------------------------------------------------------
\* C1: the first reduction of a CopyAbove cell at (r, c), r >= 2, whose cell
\* above is not CopyAbove returns the expression stored at (r - 1, c),
\* whatever was evaluated before.
CopyAboveCopiesRowAbove ==
    (/\ OnCell
     /\ Cell = CopyAbove
     /\ row_index >= 2
     /\ column_index <= Len(rows[row_index - 1])
     /\ rows[row_index - 1][column_index] # CopyAbove
     /\ (FirstStepDone \/ FirstStepFailed))
    => (FirstStepDone /\ expr = rows[row_index - 1][column_index])

\* C2: a CopyEvaluated(col) cell at (r, c), r >= 2, ends with the text the
\* cell at (r - 1, col) was evaluated to, whatever was evaluated before.
CopyEvaluatedReadsRowAbove ==
    (/\ OnCell
     /\ Cell.type = "CopyEvaluated"
     /\ row_index >= 2
     /\ Cell.col <= Len(rows[row_index - 1])
     /\ (Finished \/ Failed))
    => (Finished /\ current[column_index] = result[row_index - 1][Cell.col])

\* C3: no reduction recurses without bound: every call of evaluate returns
\* or panics.
EvaluationIsBounded == pc # "unbounded"

\* C4: evaluate_recursively fails with 'recursion limit reached' only when
\* RECURSION_LIMIT reductions were applied and the result is still not a
\* String; a String reached after k <= RECURSION_LIMIT reductions is returned.
LimitOnlyWithoutText ==
    panic = "recursion limit reached" => (steps = RECURSION_LIMIT /\ expr.type # "String")

\* C5: =sum(split("i1,..,ik", ",")) evaluates to the text of i1 + .. + ik,
\* and "1,1,3" to "5".
SumOfSplit ==
    \A items \in ItemLists \cup {<<1, 1, 3>>} :
        (End /\ rows = <<<<Function("sum", <<SplitOf(items)>>)>>>>)
        => (pc = "done" /\ result = <<<<NumToText(Sum(items))>>>>)

\* the number an argument that is a Number or a String coerces to
ArgNumber(a) == IF a.type = "Number" THEN a.n ELSE ParseF64(a.s).n

\* C6: a Minus node over a1..an reduces to Number(a1 - a2 - .. - an).
MinusSubtracts ==
    (/\ OnCell
     /\ Cell.type = "Minus"
     /\ Cell.xs # <<>>
     /\ \A i \in 1..Len(Cell.xs) : Cell.xs[i].type \in {"Number", "String"}
     /\ (FirstStepDone \/ FirstStepFailed))
    => (/\ FirstStepDone
        /\ expr = Number(ArgNumber(Cell.xs[1])
                         - Sum([i \in 1..(Len(Cell.xs) - 1) |-> ArgNumber(Cell.xs[i + 1])])))

\* the cells that declare the label, and the last of them in row-major order
Declarations(label) == {p \in Positions : rows[p[1]][p[2]] = Label(label)}

LastDeclaration(label) ==
    CHOOSE p \in Declarations(label) :
        \A q \in Declarations(label) : q[1] < p[1] \/ (q[1] = p[1] /\ q[2] <= p[2])

\* C7: a LabelReference{L, k} whose label was last declared at (r, c) and
\* whose target (r + k, c) is a cell of the grid ends with the text of that
\* cell; a LabelReference to an undeclared name ends with "error" and does
\* not end the run.
LabelResolution ==
    \A at \in Positions :
        LET ref == rows[at[1]][at[2]]
            d == LastDeclaration(ref.s)
            target == <<d[1] + ref.n, d[2]>>
        IN  ref.type = "LabelReference" =>
              IF Declarations(ref.s) = {}
              THEN /\ ~FailedAt(at[1], at[2])
                   /\ Recorded(at[1], at[2]) => TextAt(at[1], at[2]) = ErrorText
              ELSE (/\ target \in Positions
                    /\ target # at
                    /\ Recorded(at[1], at[2])
                    /\ Recorded(target[1], target[2]))
                   => TextAt(at[1], at[2]) = TextAt(target[1], target[2])

\* C7 witness: the run ended with a reference, two rows below the second of
\* two declarations of its label, that took the text of the number there.
LabelResolutionWitness ==
    /\ pc = "done"
    /\ \E at \in Positions :
        LET ref == rows[at[1]][at[2]]
            d == LastDeclaration(ref.s)
        IN  /\ ref.type = "LabelReference"
            /\ ref.n = 2
            /\ Cardinality(Declarations(ref.s)) = 2
            /\ <<d[1] + 2, d[2]>> \in Positions
            /\ rows[d[1] + 2][d[2]].type = "Number"
            /\ result[at[1]][at[2]] = NumToText(10 * (d[1] + 2) + d[2])

\* the rows whose cell in the column is neither Empty nor Label
ValueRows(column) ==
    {r \in 1..Len(rows) : /\ column <= Len(rows[r])
                          /\ rows[r][column].type # "Empty"
                          /\ rows[r][column].type # "Label"}

\* C8: a ColumnReference to a column whose cells are all Empty or Label
\* ends with "error"; otherwise it ends with the text of the cell of the
\* column, neither Empty nor Label, in the greatest row, wherever the
\* reference stands.
ColumnScan ==
    \A at \in Positions :
        LET ref == rows[at[1]][at[2]]
            last == CHOOSE r \in ValueRows(ref.col) : \A q \in ValueRows(ref.col) : q <= r
        IN  ref.type = "ColumnReference" =>
              IF ValueRows(ref.col) = {}
              THEN /\ ~FailedAt(at[1], at[2])
                   /\ Recorded(at[1], at[2]) => TextAt(at[1], at[2]) = ErrorText
              ELSE (/\ <<last, ref.col>> # at
                    /\ rows[last][ref.col].type \in {"Number", "String"})
                   => /\ ~FailedAt(at[1], at[2])
                      /\ (Recorded(at[1], at[2]) /\ Recorded(last, ref.col))
                         => TextAt(at[1], at[2]) = TextAt(last, ref.col)

\* C8 witness: the run ended with a reference in row 1 that took the text of
\* the number in row 2 of a column whose row 3 is a label.
ColumnScanWitness ==
    /\ pc = "done"
    /\ Len(rows) = 3
    /\ rows[1][1] = ColumnReference(2)
    /\ Len(rows[1]) = 1
    /\ rows[2] = <<Value(2, 1), Number(22)>>
    /\ rows[3] = <<Value(3, 1), Label(<<"x">>)>>
    /\ result[1][1] = <<"2", "2">>

\* C8 witness of the error case: a reference to a column of Empty and Label
\* cells only ended with "error" and the run went on to its end.
ColumnScanErrorWitness ==
    /\ pc = "done"
    /\ Len(rows) = 2
    /\ rows[1] = <<ColumnReference(2), Empty>>
    /\ rows[2] = <<Value(2, 1), Label(<<"x">>)>>
    /\ result[1][1] = ErrorText

\* C9: in a column whose row 1 is a literal and whose rows 2..n are all
\* CopyAbove, each of the n cells ends with the literal's text, none in a
\* fatal error.
ChainColumn(c, n) ==
    /\ c <= Len(rows[1])
    /\ rows[1][c].type = "String"
    /\ \A r \in 2..n : c <= Len(rows[r]) /\ rows[r][c] = CopyAbove

CopyAboveChain ==
    (/\ OnCell
     /\ ChainColumn(column_index, row_index)
     /\ (Finished \/ Failed))
    => (Finished /\ current[column_index] = to_string(rows[1][column_index]))

\* the texts a call of the spread family is to receive: the literal's text,
\* and for spread(split("i1,..,ik", ",")) the texts of i1, .., ik in order
ParamTexts(param) ==
    IF param.type = "String" THEN <<param.s>>
    ELSE LET items == CHOOSE items \in ItemLists : SpreadOf(items) = param
         IN  [i \in 1..Len(items) |-> NumToText(items[i])]

\* C10: a call receives the elements of each Spread argument in order at the
\* argument's position: concat joins them in that order, sum adds them, gte
\* compares the two of them and fails on any other count; and
\* sum(spread(split("1,2,3", ","))) is 6.
SpreadFlattening ==
    /\ (End /\ rows = SumSpreadSheet) => (pc = "done" /\ result = <<<<(<<"6">>)>>>>)
    /\ (/\ End
        /\ Len(rows) = 1
        /\ Len(rows[1]) = 1
        /\ rows[1][1].type = "Function"
        /\ \A i \in 1..Len(rows[1][1].xs) : rows[1][1].xs[i] \in SpreadParams)
       => LET call == rows[1][1]
              args == Concat([i \in 1..Len(call.xs) |-> ParamTexts(call.xs[i])])
              nums == [i \in 1..Len(args) |-> DigitsValue(args[i], 0)]
          IN  CASE call.name = "concat" ->
                     pc = "done" /\ result = <<<<Concat(args)>>>>
                [] call.name = "SUM" ->
                     pc = "done" /\ result = <<<<NumToText(Sum(nums))>>>>
                [] call.name = "gte" ->
                     IF Len(args) = 2
                     THEN /\ pc = "done"
                          /\ result = <<<<IF nums[1] >= nums[2] THEN TrueText ELSE FalseText>>>>
                     ELSE pc = "panicked" /\ panic = "binary operation needs 2 params"
                [] OTHER -> TRUE

\* C10 witness: gte over one spread of the two-element list "1,2" ended
\* with "false", the order of the list kept.
SpreadFlatteningWitness ==
    /\ pc = "done"
    /\ rows = <<<<Function("gte", <<SpreadOf(<<1, 2>>)>>)>>>>
    /\ result = <<<<FalseText>>>>

\* the current cell is a Divide over literal numbers and texts and its
\* first reduction is over
DivideOfLiterals ==
    /\ OnCell
    /\ Cell.type = "Divide"
    /\ Cell.xs # <<>>
    /\ \A i \in 1..Len(Cell.xs) : Cell.xs[i].type \in {"Number", "String"}
    /\ (FirstStepDone \/ FirstStepFailed)

\* the positions of the divisors of the current cell that coerce to 0
ZeroDivisors == {i \in 2..Len(Cell.xs) : ArgNumber(Cell.xs[i]) = 0}

\* C11: a Divide one of whose divisors coerces to 0, at whatever position,
\* panics with 'division by zero' and returns no Number; without a zero
\* divisor it returns the Number q with q * a2 * .. * an = a1.
DivideByZeroFails ==
    DivideOfLiterals =>
        IF ZeroDivisors # {}
        THEN FirstStepFailed /\ pc = "panicked" /\ panic = "division by zero"
        ELSE /\ FirstStepDone
             /\ expr.type = "Number"
             /\ expr.n * Product([i \in 1..(Len(Cell.xs) - 1) |-> ArgNumber(Cell.xs[i + 1])])
                    = ArgNumber(Cell.xs[1])

\* a Divide whose only zero divisor is its last, after two others, has failed
DivideByZeroWitness ==
    /\ DivideOfLiterals
    /\ Len(Cell.xs) >= 4
    /\ ZeroDivisors = {Len(Cell.xs)}
    /\ panic = "division by zero"

\* a Divide by two divisors greater than 1 has returned its quotient
DivideQuotientWitness ==
    /\ DivideOfLiterals
    /\ Len(Cell.xs) >= 3
    /\ \A i \in 2..Len(Cell.xs) : ArgNumber(Cell.xs[i]) > 1
    /\ FirstStepDone
    /\ expr.type = "Number"
    /\ expr.n > 0

\* C12: naming an index i >= 1 and reading the name back gives i; the name
\* has only the letters A..Z; 1 is A, 26 is Z and 27 is AA.
ColumnIndexRoundTrip ==
    (pc = "named" =>
        /\ index = name_index
        /\ column_name # <<>>
        /\ \A i \in 1..Len(column_name) : \E k \in 1..26 : column_name[i] = Letters[k])
    /\ (pc \in {"name", "named"} =>
        /\ (name_index = 1 <=> column_name = <<"A">>)
        /\ (name_index = 26 <=> column_name = <<"Z">>)
        /\ (name_index = 27 <=> column_name = <<"A", "A">>))

\* a three-letter name has been read back
ColumnIndexRoundTripWitness ==
    /\ pc = "named"
    /\ Len(column_name) = 3
    /\ index = name_index

\* C13: when the fixed-point reduction of the cell at (r, c) starts, the
\* shared position (evaluating_row, evaluating_column) is (r, c), whatever
\* cells were evaluated before.
DriverPosition ==
    (pc = "loop" /\ steps = 0) =>
        (evaluating_row = row_index /\ evaluating_column = column_index)

\* the column half alone: evaluate never writes evaluating_column
DriverColumnPosition == (pc = "loop" /\ steps = 0) => evaluating_column = column_index

\* an argument that is a literal, or a reference to a cell whose text has
\* been recorded and is numeric
NumericArgument(a) ==
    \/ a.type \in {"Number", "String"}
    \/ /\ a.type = "CellReference"
       /\ HasCell(a.row, a.col)
       /\ Recorded(a.row, a.col)
       /\ ParseF64(TextAt(a.row, a.col)).ok

\* the final numeric value of such an argument
FinalNumber(a) ==
    IF a.type = "CellReference" THEN ParseF64(TextAt(a.row, a.col)).n ELSE ArgNumber(a)

\* the current cell is an arithmetic node over numeric arguments, one of them
\* a reference whose cell is of one of the given variants, no divisor is 0,
\* and its first reduction is over
ArithmeticOverReference(variants) ==
    /\ OnCell
    /\ Cell.type \in {"Plus", "Minus", "Multiply", "Divide"}
    /\ Cell.xs # <<>>
    /\ \A i \in 1..Len(Cell.xs) : NumericArgument(Cell.xs[i])
    /\ \E i \in 1..Len(Cell.xs) :
           /\ Cell.xs[i].type = "CellReference"
           /\ get_cell(Cell.xs[i].row, Cell.xs[i].col).type \in variants
    /\ Cell.type = "Divide" => \A i \in 2..Len(Cell.xs) : FinalNumber(Cell.xs[i]) # 0
    /\ (FirstStepDone \/ FirstStepFailed)

\* the node returned a Number, and for Plus, Multiply and Divide the one
\* computed from the final values of its arguments
ArithmeticValue ==
    LET values == [i \in 1..Len(Cell.xs) |-> FinalNumber(Cell.xs[i])]
    IN  /\ FirstStepDone
        /\ expr.type = "Number"
        /\ Cell.type = "Plus" => expr.n = Sum(values)
        /\ Cell.type = "Multiply" => expr.n = Product(values)
        /\ Cell.type = "Divide" => expr.n * Product(Tail(values)) = Head(values)

Variants ==
    {"Empty", "Number", "Label", "String", "List", "Spread", "CellReference",
     "LabelReference", "ColumnReference", "CopyAbove", "CopyEvaluated", "Function",
     "Plus", "Minus", "Multiply", "Divide"}

\* C14: an arithmetic node over a reference to a cell that evaluates to a
\* numeric text uses that cell's final value, also when the cell holds a
\* formula, and does not fail with 'expected number'.
ArithmeticUsesFinalValue == ArithmeticOverReference(Variants) => ArithmeticValue

\* what the code does give: the value when the referenced cell is stored as
\* a String or a Number
ArithmeticUsesStoredValue == ArithmeticOverReference({"String", "Number"}) => ArithmeticValue

\* a Plus over a reference to a String cell has returned its sum
ArithmeticUsesStoredValueWitness ==
    /\ ArithmeticOverReference({"String"})
    /\ Cell.type = "Plus"
    /\ FirstStepDone

=============================================================================
